---- MODULE Spec2Model ----
(***************************************************************************)
(* jl-segtree: the N-dimensional lazy segment tree of src/src/ndsegtree.h. *)
(*                                                                         *)
(* A Cube is a record [l, r] of two coordinate sequences (axis k of the    *)
(* code is index k+1 here).  tree_ and operations_ are the two flat arrays *)
(* of the SegmentTree, indexed from 0 as in the code.  The constructor's   *)
(* recursion BuildTreeR is modelled frame by frame on an explicit call     *)
(* stack, because it does not return for every extent vector; the public   *)
(* calls are atomic actions computed by the recursive operators below.     *)
(* grid is the reference grid of the specification (one integer per cell), *)
(* last and prev are the records of the last two public calls, and obs     *)
(* holds what Get returned for every cell before each of them.             *)
(* one is the one-dimensional SegmentTree of src/unnamed/part_000 built    *)
(* from the same array and given the same calls when n = 1.  probe is the  *)
(* last direct call of a Cube or Operation method with its result.         *)
(***************************************************************************)
EXTENDS Integers, Sequences, FiniteSets, TLC

VARIABLES pc, dims, arr, tree_, operations_, stack, grid, last, prev, obs,
          calls, one, probe

vars == <<pc, dims, arr, tree_, operations_, stack, grid, last, prev, obs,
          calls, one, probe>>

(***************************************************************************)
(* Bounds of the model.                                                    *)
(***************************************************************************)
\* public calls made after construction
MaxOps == 2
\* call frames of BuildTreeR the process stack can hold
MaxStack == 6

\* extent vectors the tree is constructed over (n = 1 and n = 2)
DimsSet == {<<1>>, <<3>>, <<4>>, <<4, 4>>, <<2, 4>>, <<3, 3>>, <<1, 5>>}
\* the initial arrays: arr[i] = s * (i + 1)
Seeds == {1}
\* arguments of AddToRange and AssignRange
AddArgs == {5, -5}
AssignArgs == {7}

(***************************************************************************)
(* Cube                                                                    *)
(***************************************************************************)
RECURSIVE Pow2(_)
Pow2(k) == IF k = 0 THEN 1 ELSE 2 * Pow2(k - 1)

\* static constexpr int N = 1 << n
NOf(n) == Pow2(n)

MaxOf(a, b) == IF a >= b THEN a ELSE b
MinOf(a, b) == IF a <= b THEN a ELSE b

RECURSIVE VolumeFrom(_, _)
VolumeFrom(c, i) ==
  IF i > Len(c.l) THEN 1 ELSE (c.r[i] - c.l[i]) * VolumeFrom(c, i + 1)

Volume(c) == VolumeFrom(c, 1)

\* (l[i] + r[i]) / 2; the node domains have non-negative bounds, where the
\* truncating division of the code is the floor
\* a / b of two ints with b > 0: the quotient is truncated toward zero
Quot(a, b) == IF a >= 0 THEN a \div b ELSE -((-a) \div b)

Center(c) == [i \in 1..Len(c.l) |-> Quot(c.l[i] + c.r[i], 2)]

\* i & (1 << k)
Bit(i, k) == (i \div Pow2(k)) % 2 = 1

\* Subdivide whose low halves end one past the center
SubdivideShared(c) ==
  LET m == Center(c)
      n == Len(c.l)
  IN [i \in 0..(NOf(n) - 1) |->
        [l |-> [k \in 1..n |-> IF Bit(i, k - 1) THEN c.l[k] ELSE m[k]],
         r |-> [k \in 1..n |-> IF Bit(i, k - 1) THEN m[k] + 1 ELSE c.r[k]]]]

Subdivide(c) ==
  LET m == Center(c)
      n == Len(c.l)
  IN [i \in 0..(NOf(n) - 1) |->
        [l |-> [k \in 1..n |-> IF Bit(i, k - 1) THEN c.l[k] ELSE m[k]],
         r |-> [k \in 1..n |-> IF Bit(i, k - 1) THEN m[k] ELSE c.r[k]]]]

IsEmpty(c) == Volume(c) = 0

IsPoint(c) == Volume(c) = 1

\* operator==
\* a >= b and a <= b of two std::array<int, n>: lexicographic order
RECURSIVE LexGe(_, _, _)
LexGe(a, b, i) ==
  IF i > Len(a) THEN TRUE
  ELSE IF a[i] # b[i] THEN a[i] > b[i]
  ELSE LexGe(a, b, i + 1)

LexLe(a, b, i) == LexGe(b, a, i)

\* this.IsDisjointFrom(other): every turn of the loop over the axes tests
\* the same comparison of the whole arrays
IsDisjointFrom(this, other) ==
  \E i \in 1..Len(this.l) :
    LexGe(other.l, this.r, 1) \/ LexLe(other.r, this.l, 1)

CubeEq(a, b) ==
  \A i \in 1..Len(a.l) : ~(a.l[i] # b.l[i] \/ a.r[i] # b.r[i])

\* IntersectWith with lo = l[i] in place of std::max(l[i], other.l[i])
IntersectWithNoMax(a, b) ==
  LET lo(i) == a.l[i]
      hi(i) == MinOf(a.r[i], b.r[i])
  IN [l |-> [i \in 1..Len(a.l) |-> IF lo(i) >= hi(i) THEN 0 ELSE lo(i)],
      r |-> [i \in 1..Len(a.l) |-> IF lo(i) >= hi(i) THEN 0 ELSE hi(i)]]

IntersectWith(a, b) ==
  LET lo(i) == MaxOf(a.l[i], b.l[i])
      hi(i) == MinOf(a.r[i], b.r[i])
  IN [l |-> [i \in 1..Len(a.l) |-> IF lo(i) >= hi(i) THEN 0 ELSE lo(i)],
      r |-> [i \in 1..Len(a.l) |-> IF lo(i) >= hi(i) THEN 0 ELSE hi(i)]]

(***************************************************************************)
(* Operation                                                               *)
(***************************************************************************)
\* Operation(): reset_pending = false, to_add = 0; also what Reset() leaves
\* an Operation whose to_add starts at 1
IdentityOne == [reset_pending |-> FALSE, to_add |-> 1]

Identity == [reset_pending |-> FALSE, to_add |-> 0]

\* Reset clearing to_add and leaving reset_pending as it was
ResetKeepsFlag(op) == [op EXCEPT !.to_add = 0]

\* memset(this, 0, sizeof(*this))
Reset(op) == Identity

\* Evaluate without the branch on reset_pending: an assign adds
EvaluateDropsReset(op, val, domain) == val + Volume(domain) * op.to_add

Evaluate(op, val, domain) ==
  IF op.reset_pending
    THEN Volume(domain) * op.to_add
    ELSE val + Volume(domain) * op.to_add

\* ComposeWith without the branch on other.reset_pending: an assign is
\* accumulated like an add
ComposeWithNoReset(this, other) ==
  [this EXCEPT !.to_add = this.to_add + other.to_add]

\* this.ComposeWith(other)
ComposeWith(this, other) ==
  IF other.reset_pending
    THEN other
    ELSE [this EXCEPT !.to_add = this.to_add + other.to_add]

(***************************************************************************)
(* SegmentTree: a tree state st is [tree, ops], the arrays tree_ and       *)
(* operations_.                                                            *)
(***************************************************************************)
Child(n, v, i) == NOf(n) * v + i + 1

RECURSIVE SumChildren(_, _, _, _)
SumChildren(st, n, v, i) ==
  IF i = NOf(n) THEN 0
  ELSE st.tree[Child(n, v, i)] + SumChildren(st, n, v, i + 1)

UpdateValueFromBelow(st, n, v) ==
  [st EXCEPT !.tree[v] = SumChildren(st, n, v, 0)]

UpdateValueFromAbove(st, v, domain) ==
  [st EXCEPT !.tree[v] = Evaluate(st.ops[v], st.tree[v], domain)]

\* EvaluateAny without the call UpdateValueFromAbove(v, domain)
EvaluateAnyNoUpdate(st, v, domain, op) ==
  LET s1 == [st EXCEPT !.ops[v] = ComposeWith(st.ops[v], op)]
  IN IF IsPoint(domain) THEN [s1 EXCEPT !.ops[v] = Reset(s1.ops[v])] ELSE s1

EvaluateAny(st, v, domain, op) ==
  LET s1 == [st EXCEPT !.ops[v] = ComposeWith(st.ops[v], op)]
      s2 == UpdateValueFromAbove(s1, v, domain)
  IN IF IsPoint(domain) THEN [s2 EXCEPT !.ops[v] = Reset(s2.ops[v])] ELSE s2

\* the loop of Push without operations_[Child(v, i)].Reset() after a leaf is
\* evaluated
RECURSIVE PushLoopKeepsLeafOp(_, _, _, _)
PushLoopKeepsLeafOp(st, v, quads, i) ==
  LET n  == Len(quads[0].l)
      c  == Child(n, v, i)
      s1 == [st EXCEPT !.ops[c] = ComposeWith(st.ops[c], st.ops[v])]
      s2 == UpdateValueFromAbove(s1, c, quads[i])
  IN IF i = NOf(n) THEN st
     ELSE IF IsPoint(quads[i])
       THEN PushLoopKeepsLeafOp(s2, v, quads, i + 1)
       ELSE PushLoopKeepsLeafOp(s1, v, quads, i + 1)

RECURSIVE PushLoop(_, _, _, _)
PushLoop(st, v, quads, i) ==
  LET n  == Len(quads[0].l)
      c  == Child(n, v, i)
      s1 == [st EXCEPT !.ops[c] = ComposeWith(st.ops[c], st.ops[v])]
      s2 == UpdateValueFromAbove(s1, c, quads[i])
  IN IF i = NOf(n) THEN st
     ELSE IF IsPoint(quads[i])
       THEN PushLoop([s2 EXCEPT !.ops[c] = Reset(s2.ops[c])], v, quads, i + 1)
       ELSE PushLoop(s1, v, quads, i + 1)

Push(st, v, domain, quads) ==
  LET s1 == PushLoop(st, v, quads, 0)
      s2 == UpdateValueFromAbove(s1, v, domain)
  IN [s2 EXCEPT !.ops[v] = Reset(s2.ops[v])]

RECURSIVE ApplyOperationR(_, _, _, _, _)
RECURSIVE ApplyLoop(_, _, _, _, _, _)
ApplyLoop(st, v, query_domain, quads, op, i) ==
  LET n         == Len(quads[0].l)
      query_sub == IntersectWith(quads[i], query_domain)
  IN IF i = NOf(n) THEN st
     ELSE IF ~IsEmpty(query_sub)
       THEN ApplyLoop(ApplyOperationR(st, Child(n, v, i), query_sub, quads[i], op),
                      v, query_domain, quads, op, i + 1)
       ELSE ApplyLoop(st, v, query_domain, quads, op, i + 1)

\* ApplyOperationR propagating at once: on the exact cover of a node that is
\* not a point the operation is evaluated and pushed to the children
ApplyOperationREager(st, v, query_domain, domain, op) ==
  IF CubeEq(query_domain, domain)
    THEN IF IsPoint(domain)
           THEN EvaluateAny(st, v, query_domain, op)
           ELSE Push(EvaluateAny(st, v, query_domain, op), v, domain,
                     Subdivide(domain))
    ELSE LET quads == Subdivide(domain)
             s1    == Push(st, v, domain, quads)
             s2    == ApplyLoop(s1, v, query_domain, quads, op, 0)
         IN UpdateValueFromBelow(s2, Len(domain.l), v)

ApplyOperationR(st, v, query_domain, domain, op) ==
  IF CubeEq(query_domain, domain)
    THEN EvaluateAny(st, v, query_domain, op)
    ELSE LET quads == Subdivide(domain)
             s1    == Push(st, v, domain, quads)
             s2    == ApplyLoop(s1, v, query_domain, quads, op, 0)
         IN UpdateValueFromBelow(s2, Len(domain.l), v)

\* QueryRangeR returns [st, ret]: the arrays it leaves and the sum
RECURSIVE QueryRangeR(_, _, _, _)
RECURSIVE QueryLoop(_, _, _, _, _, _)
QueryLoop(st, v, query_domain, quads, i, sum) ==
  LET n         == Len(quads[0].l)
      query_sub == IntersectWith(quads[i], query_domain)
      sub       == QueryRangeR(st, Child(n, v, i), query_sub, quads[i])
  IN IF i = NOf(n) THEN [st |-> st, ret |-> sum]
     ELSE IF ~IsEmpty(query_sub)
       THEN QueryLoop(sub.st, v, query_domain, quads, i + 1, sum + sub.ret)
       ELSE QueryLoop(st, v, query_domain, quads, i + 1, sum)

QueryRangeR(st, v, query_domain, domain) ==
  IF CubeEq(query_domain, domain)
    THEN [st |-> st, ret |-> st.tree[v]]
    ELSE LET quads == Subdivide(domain)
             s1    == Push(st, v, domain, quads)
         IN QueryLoop(s1, v, query_domain, quads, 0, 0)

\* entire_domain_ = {std::array<int, n>(), dims}
EntireDomain(d) == [l |-> [k \in 1..Len(d) |-> 0], r |-> d]

\* 4 * entire_domain_.Volume()
TreeSize(d) == 4 * Volume(EntireDomain(d))

ApplyToRange(st, d, domain, op) ==
  ApplyOperationR(st, 0, domain, EntireDomain(d), op)

AssignRangeOp(st, d, domain, val) ==
  ApplyToRange(st, d, domain, [reset_pending |-> TRUE, to_add |-> val])

AddToRangeOp(st, d, domain, inc) ==
  ApplyToRange(st, d, domain, [reset_pending |-> FALSE, to_add |-> inc])

QueryRangeOp(st, d, domain) == QueryRangeR(st, 0, domain, EntireDomain(d))

\* the unit cube Get builds around the coordinate I
UnitCube(I) == [l |-> I, r |-> [k \in 1..Len(I) |-> I[k] + 1]]

GetOp(st, d, I) == QueryRangeOp(st, d, UnitCube(I))

RECURSIVE LinearFrom(_, _, _, _)
LinearFrom(d, coords, i, idx) ==
  IF i >= Len(d) - 1 THEN idx
  ELSE LinearFrom(d, coords, i + 1, d[i + 1] * idx + coords[i + 2])

\* idx = coords.front(); for i < n - 1: idx = dims()[i] * idx + coords[i + 1]
Linear(d, coords) == LinearFrom(d, coords, 0, coords[1])

(***************************************************************************)
(* The one-dimensional SegmentTree of src/unnamed/part_000.  Its Cube is   *)
(* [l, r] with integer bounds; a tree state is [tree, ops] as above.       *)
(***************************************************************************)
Volume1(c) == c.r - c.l

Center1(c) == Quot(c.r + c.l, 2)

\* {{l, m}, {m, r}}
Subdivide1(c) ==
  [left |-> [l |-> c.l, r |-> Center1(c)], right |-> [l |-> Center1(c), r |-> c.r]]

IsPoint1(c) == Volume1(c) = 1

\* this.IsDisjointFrom(other)
IsDisjointFrom1(this, other) == other.l >= this.r \/ other.r <= this.l

IntersectWith1(this, other) ==
  [l |-> MaxOf(this.l, other.l), r |-> MinOf(this.r, other.r)]

Evaluate1(op, val, domain) ==
  IF op.reset_pending
    THEN Volume1(domain) * op.to_add
    ELSE val + Volume1(domain) * op.to_add

ComposeWith1(this, other) ==
  IF other.reset_pending
    THEN other
    ELSE [this EXCEPT !.to_add = this.to_add + other.to_add]

Left(v) == 2 * v + 1

Right(v) == 2 * v + 2

UpdateValueFromBelow1(st, v) ==
  [st EXCEPT !.tree[v] = st.tree[Left(v)] + st.tree[Right(v)]]

UpdateValueFromAbove1(st, v, domain) ==
  [st EXCEPT !.tree[v] = Evaluate1(st.ops[v], st.tree[v], domain)]

EvaluateAny1(st, v, domain, op) ==
  LET s1 == [st EXCEPT !.ops[v] = ComposeWith1(st.ops[v], op)]
      s2 == UpdateValueFromAbove1(s1, v, domain)
  IN IF IsPoint1(domain) THEN [s2 EXCEPT !.ops[v] = Identity] ELSE s2

\* the leaves are evaluated and their operations are not reset
Push1(st, v, domain) ==
  LET sub == Subdivide1(domain)
      s1  == [st EXCEPT !.ops[Left(v)] = ComposeWith1(st.ops[Left(v)], st.ops[v])]
      s2  == [s1 EXCEPT !.ops[Right(v)] = ComposeWith1(s1.ops[Right(v)], s1.ops[v])]
      s3  == IF IsPoint1(sub.left)
               THEN UpdateValueFromAbove1(s2, Left(v), sub.left) ELSE s2
      s4  == IF IsPoint1(sub.right)
               THEN UpdateValueFromAbove1(s3, Right(v), sub.right) ELSE s3
      s5  == UpdateValueFromAbove1(s4, v, domain)
  IN [s5 EXCEPT !.ops[v] = Identity]

RECURSIVE ApplyOperationR1(_, _, _, _, _)
ApplyOperationR1(st, v, query_domain, node_domain, op) ==
  LET sub == Subdivide1(node_domain)
      s1  == Push1(st, v, node_domain)
      s2  == IF ~IsDisjointFrom1(query_domain, sub.left)
               THEN ApplyOperationR1(s1, Left(v),
                                     IntersectWith1(sub.left, query_domain),
                                     sub.left, op)
               ELSE s1
      s3  == IF ~IsDisjointFrom1(query_domain, sub.right)
               THEN ApplyOperationR1(s2, Right(v),
                                     IntersectWith1(sub.right, query_domain),
                                     sub.right, op)
               ELSE s2
  IN IF query_domain = node_domain
       THEN EvaluateAny1(st, v, query_domain, op)
       ELSE UpdateValueFromBelow1(s3, v)

RECURSIVE QueryRangeR1(_, _, _, _)
QueryRangeR1(st, v, query_domain, node_domain) ==
  LET sub == Subdivide1(node_domain)
      s1  == Push1(st, v, node_domain)
      ql  == IF ~IsDisjointFrom1(query_domain, sub.left)
               THEN QueryRangeR1(s1, Left(v),
                                 IntersectWith1(sub.left, query_domain), sub.left)
               ELSE [st |-> s1, ret |-> 0]
      qr  == IF ~IsDisjointFrom1(query_domain, sub.right)
               THEN QueryRangeR1(ql.st, Right(v),
                                 IntersectWith1(sub.right, query_domain), sub.right)
               ELSE [st |-> ql.st, ret |-> 0]
  IN IF query_domain = node_domain
       THEN [st |-> st, ret |-> st.tree[v]]
       ELSE [st |-> qr.st, ret |-> ql.ret + qr.ret]

RECURSIVE BuildTree1(_, _, _, _, _)
BuildTree1(st, a, l, r, v) ==
  IF r - l = 1
    THEN [st EXCEPT !.tree[v] = a[l]]
    ELSE UpdateValueFromBelow1(
           BuildTree1(BuildTree1(st, a, l, (l + r) \div 2, Left(v)),
                      a, (l + r) \div 2, r, Right(v)), v)

\* SegmentTree(arr): tree_size = 4 * size() + 1
Construct1(a) ==
  LET size == Cardinality(DOMAIN a)
  IN BuildTree1([tree |-> [v \in 0..(4 * size) |-> 0],
                 ops  |-> [v \in 0..(4 * size) |-> Identity]],
                a, 0, size, 0)

\* the one-dimensional tree next to an n = 1 tree, with the value its last
\* QueryRange or Get returned; nothing next to a tree of another n
OneInit(d, a) ==
  IF Len(d) = 1
    THEN [st |-> Construct1(a), ret |-> 0]
    ELSE [st |-> [tree |-> <<>>, ops |-> <<>>], ret |-> 0]

\* the call c of the N-dimensional tree made on the one-dimensional tree:
\* ApplyToRange, QueryRange and Get start at {0, size()}
OneCalled(o, c) ==
  LET D     == [l |-> c.dom.l[1], r |-> c.dom.r[1]]
      whole == [l |-> 0, r |-> Cardinality(DOMAIN o.st.tree) \div 4]
      op    == [reset_pending |-> c.kind = "assign", to_add |-> c.arg]
  IN IF o.st.tree = <<>> THEN o
     ELSE IF c.kind \in {"add", "assign"}
       THEN [st |-> ApplyOperationR1(o.st, 0, D, whole, op), ret |-> 0]
       ELSE QueryRangeR1(o.st, 0, D, whole)

\* no Cube or Operation method has been called directly
NoProbe == [fn |-> "none"]

(***************************************************************************)
(* The reference grid and the inputs of the public calls.                  *)
(***************************************************************************)
\* the longest extent of d
Longest(d) ==
  CHOOSE e \in {d[k] : k \in 1..Len(d)} : \A k \in 1..Len(d) : d[k] <= e

Cells(d) ==
  {c \in [1..Len(d) -> 0..(Longest(d) - 1)] : \A k \in 1..Len(d) : c[k] < d[k]}

InCube(c, D) == \A k \in 1..Len(c) : D.l[k] <= c[k] /\ c[k] < D.r[k]

RECURSIVE RowMajorFrom(_, _, _)
RowMajorFrom(d, c, k) ==
  IF k = 1 THEN c[1] ELSE RowMajorFrom(d, c, k - 1) * d[k] + c[k]

\* ((c[0] * dims[1] + c[1]) * dims[2] + c[2]) ...
RowMajor(d, c) == RowMajorFrom(d, c, Len(d))

RECURSIVE SumOver(_, _)
SumOver(g, S) ==
  IF S = {} THEN 0
  ELSE LET c == CHOOSE x \in S : TRUE IN g[c] + SumOver(g, S \ {c})

\* the sum of the reference grid over the cells of D
GridSum(g, D) == SumOver(g, {c \in DOMAIN g : InCube(c, D)})

\* an add or assign applied cell by cell
GridApply(g, D, op) ==
  [c \in DOMAIN g |->
     IF InCube(c, D)
       THEN (IF op.reset_pending THEN op.to_add ELSE g[c] + op.to_add)
       ELSE g[c]]

\* D lies inside E
Inside(D, E) == \A k \in 1..Len(D.l) : E.l[k] <= D.l[k] /\ D.r[k] <= E.r[k]

\* D1 and D2 share a cell and each has a cell the other has not
PartialOverlap(d, D1, D2) ==
  /\ \E c \in Cells(d) : InCube(c, D1) /\ InCube(c, D2)
  /\ \E c \in Cells(d) : InCube(c, D1) /\ ~InCube(c, D2)
  /\ \E c \in Cells(d) : InCube(c, D2) /\ ~InCube(c, D1)

\* all the intervals [a, b) with 0 <= a < b <= e
Intervals(e) == {iv \in (0..e) \X (0..e) : iv[1] < iv[2]}

MkCube(f) ==
  [l |-> [k \in DOMAIN f |-> f[k][1]], r |-> [k \in DOMAIN f |-> f[k][2]]]

\* every non-empty domain inside the entire domain
AllDomains(d) ==
  {MkCube(f) : f \in {g \in [1..Len(d) -> Intervals(Longest(d))] :
                        \A k \in 1..Len(d) : g[k] \in Intervals(d[k])}}

\* the intervals the calls of the model take on an axis of extent e: all of
\* them on a short axis, on a long one the whole axis, its low half and the
\* interval that straddles the midpoint
CallIntervals(e) ==
  IF e <= 3 THEN Intervals(e) ELSE {<<0, e>>, <<0, e \div 2>>, <<1, e - 1>>}

\* the domains of the calls: the same interval on every axis
CallDomains(d) ==
  {MkCube([k \in 1..Len(d) |-> iv]) : iv \in CallIntervals(d[1])}

CallCoords(e) == IF e <= 3 THEN 0..(e - 1) ELSE {0, 1, e - 1}

\* the coordinates of the Get calls: the same coordinate on every axis
CallCells(d) == {[k \in 1..Len(d) |-> x] : x \in CallCoords(d[1])}

(***************************************************************************)
(* State machine                                                           *)
(***************************************************************************)
St == [tree |-> tree_, ops |-> operations_]

StNext == [tree |-> tree_', ops |-> operations_']

\* failed: the call reported a failure to its caller; no public call of the
\* code has a failing path
Call(kind, D, arg, ret) ==
  [kind |-> kind, dom |-> D, arg |-> arg, ret |-> ret, failed |-> FALSE]

NoCall(d) == Call("none", EntireDomain(d), 0, 0)

\* what QueryRange(D) and Get(I) return when called in the tree state st
QueryRet(st, D) == QueryRangeOp(st, dims, D).ret

GetRet(st, I) == GetOp(st, dims, I).ret

Observe(st) == [c \in Cells(dims) |-> GetRet(st, c)]

\* SegmentTree(arr, dims) up to the call BuildTree(arr)
Init ==
  \E d \in DimsSet, s \in Seeds :
    /\ dims = d
    /\ arr = [i \in 0..(Volume(EntireDomain(d)) - 1) |-> s * (i + 1)]
    /\ tree_ = [v \in 0..(TreeSize(d) - 1) |-> 0]
    /\ operations_ = [v \in 0..(TreeSize(d) - 1) |-> Identity]
    /\ stack = <<[domain |-> EntireDomain(d), v |-> 0, i |-> 0]>>
    /\ pc = "build"
    /\ grid = [c \in Cells(d) |-> s * (RowMajor(d, c) + 1)]
    /\ last = NoCall(d)
    /\ prev = NoCall(d)
    /\ obs = [last |-> [c \in Cells(d) |-> 0], prev |-> [c \in Cells(d) |-> 0]]
    /\ calls = 0
    /\ one = OneInit(d, [i \in 0..(Volume(EntireDomain(d)) - 1) |-> s * (i + 1)])
    /\ probe = NoProbe

Top == stack[Len(stack)]

Pop == SubSeq(stack, 1, Len(stack) - 1)

Returned == IF Len(stack) = 1 THEN "ready" ELSE "build"

\* BuildTreeR on a point domain: tree_[v] = arr[Linear(domain.l)]
BuildLeaf ==
  /\ pc = "build"
  /\ IsPoint(Top.domain)
  /\ Top.v \in DOMAIN tree_
  /\ Linear(dims, Top.domain.l) \in DOMAIN arr
  /\ tree_' = [tree_ EXCEPT ![Top.v] = arr[Linear(dims, Top.domain.l)]]
  /\ stack' = Pop
  /\ pc' = Returned
  /\ UNCHANGED <<dims, arr, operations_, grid, last, prev, obs, calls, one, probe>>

\* BuildTreeR on a point domain whose v is past the end of tree_: the write
\* is undefined behaviour, it either ends the process or lands outside the
\* vector and the constructor goes on
BuildLeafOutOfBounds ==
  /\ pc = "build"
  /\ IsPoint(Top.domain)
  /\ Top.v \notin DOMAIN tree_
  /\ \/ pc' = "crash" /\ stack' = stack
     \/ pc' = Returned /\ stack' = Pop
  /\ UNCHANGED <<dims, arr, tree_, operations_, grid, last, prev, obs, calls, one, probe>>

\* BuildTreeR on any other domain: the call BuildTreeR(arr, quads[i], Child(v, i))
BuildDescend ==
  /\ pc = "build"
  /\ ~IsPoint(Top.domain)
  /\ Top.i < NOf(Len(dims))
  /\ Len(stack) < MaxStack
  /\ stack' = Append([stack EXCEPT ![Len(stack)].i = Top.i + 1],
                     [domain |-> Subdivide(Top.domain)[Top.i],
                      v |-> Child(Len(dims), Top.v, Top.i),
                      i |-> 0])
  /\ UNCHANGED <<pc, dims, arr, tree_, operations_, grid, last, prev, obs, calls, one, probe>>

\* the loop over the quadrants is over: UpdateValueFromBelow(v) and return
BuildReturn ==
  /\ pc = "build"
  /\ ~IsPoint(Top.domain)
  /\ Top.i = NOf(Len(dims))
  /\ tree_' = UpdateValueFromBelow(St, Len(dims), Top.v).tree
  /\ stack' = Pop
  /\ pc' = Returned
  /\ UNCHANGED <<dims, arr, operations_, grid, last, prev, obs, calls, one, probe>>

\* the recursion needs one more frame than the process stack holds
BuildOverflow ==
  /\ pc = "build"
  /\ ~IsPoint(Top.domain)
  /\ Top.i < NOf(Len(dims))
  /\ Len(stack) >= MaxStack
  /\ pc' = "overflow"
  /\ UNCHANGED <<dims, arr, tree_, operations_, stack, grid, last, prev, obs, calls, one, probe>>

\* the constructor has returned and the model has calls left
Callable == pc = "ready" /\ calls < MaxOps

\* the bookkeeping of a public call that leaves the arrays as in s
Called(s, c) ==
  /\ tree_' = s.tree
  /\ operations_' = s.ops
  /\ last' = c
  /\ prev' = last
  /\ obs' = [last |-> Observe(St), prev |-> obs.last]
  /\ calls' = calls + 1
  /\ one' = OneCalled(one, c)
  /\ UNCHANGED <<pc, dims, arr, stack, probe>>

AssignRange ==
  /\ Callable
  /\ \E D \in CallDomains(dims), val \in AssignArgs :
       /\ Called(AssignRangeOp(St, dims, D, val), Call("assign", D, val, 0))
       /\ grid' = GridApply(grid, D, [reset_pending |-> TRUE, to_add |-> val])

AddToRange ==
  /\ Callable
  /\ \E D \in CallDomains(dims), inc \in AddArgs :
       /\ Called(AddToRangeOp(St, dims, D, inc), Call("add", D, inc, 0))
       /\ grid' = GridApply(grid, D, [reset_pending |-> FALSE, to_add |-> inc])

QueryRange ==
  /\ Callable
  /\ \E D \in CallDomains(dims) :
       \E q \in {QueryRangeOp(St, dims, D)} :
         /\ Called(q.st, Call("query", D, 0, q.ret))
         /\ grid' = grid

Get ==
  /\ Callable
  /\ \E I \in CallCells(dims) :
       \E q \in {GetOp(St, dims, I)} :
         /\ Called(q.st, Call("get", UnitCube(I), 0, q.ret))
         /\ grid' = grid

Next ==
  \/ BuildLeaf
  \/ BuildLeafOutOfBounds
  \/ BuildDescend
  \/ BuildReturn
  \/ BuildOverflow
  \/ AssignRange
  \/ AddToRange
  \/ QueryRange
  \/ Get

Spec == Init /\ [][Next]_vars

Ready == pc = "ready"

(***************************************************************************)
(* Sum consistency and cell values                                         *)
(***************************************************************************)
\* C1: after construction and any in-bounds calls, QueryRange(D) is the sum
\* of the reference grid over the cells of D, for every non-empty domain D
\* inside the entire domain
SumConsistency ==
  Ready => \A D \in AllDomains(dims) : QueryRet(St, D) = GridSum(grid, D)

\* C2: after any in-bounds calls Get(c) returns the reference grid's cell c,
\* for every coordinate c inside the extents, and so did the last Get call
GetIsCell ==
  Ready =>
    /\ \A c \in Cells(dims) : GetRet(St, c) = grid[c]
    /\ last.kind = "get" => last.ret = grid[last.dom.l]

\* a Get that read a cell assigned through a node that is not a leaf
GetIsCellWitness ==
  /\ Ready
  /\ prev.kind = "assign" /\ ~IsPoint(prev.dom)
  /\ last.kind = "get" /\ InCube(last.dom.l, prev.dom)
  /\ last.ret = prev.arg
  /\ last.ret # arr[RowMajor(dims, last.dom.l)]

(***************************************************************************)
(* Apply followed by query                                                 *)
(***************************************************************************)
\* C3: when the last call was QueryRange(D) and returned q0, AddToRange(D, k)
\* followed by QueryRange(D) returns q0 + k * Volume(D), for every k
AddThenQuery ==
  (Ready /\ last.kind = "query") =>
    \A k \in AddArgs :
      QueryRet(AddToRangeOp(St, dims, last.dom, k), last.dom)
        = last.ret + k * Volume(last.dom)

\* C4: AssignRange(D, k) immediately followed by QueryRange(D) returns
\* k * Volume(D): in the state an AssignRange call has left, and when the
\* QueryRange call has been made
AssignThenQuery ==
  Ready =>
    /\ last.kind = "assign" =>
         QueryRet(St, last.dom) = last.arg * Volume(last.dom)
    /\ (prev.kind = "assign" /\ last.kind = "query" /\ last.dom = prev.dom) =>
         last.ret = prev.arg * Volume(prev.dom)

\* an assign over a domain that is no node of the tree, made while an add
\* was pending on a node, and queried
AssignThenQueryWitness ==
  /\ Ready
  /\ prev.kind = "add" /\ ~IsPoint(prev.dom)
  /\ last.kind = "assign" /\ PartialOverlap(dims, prev.dom, last.dom)
  /\ obs.last # obs.prev
  /\ QueryRet(St, last.dom) = last.arg * Volume(last.dom)
  /\ Volume(last.dom) > 1

(***************************************************************************)
(* Queries                                                                 *)
(***************************************************************************)
\* C5: QueryRange(D) called twice in a row returns the same value both times:
\* in the state a query call has left, and when the second call has been made
Requery ==
  Ready =>
    /\ last.kind \in {"query", "get"} => QueryRet(St, last.dom) = last.ret
    /\ (prev.kind \in {"query", "get"} /\ last.kind \in {"query", "get"}
          /\ last.dom = prev.dom) => last.ret = prev.ret

\* a query whose traversal pushed the operation pending on the root, asked
\* again
RequeryWitness ==
  /\ Ready
  /\ prev.kind \in {"add", "assign"} /\ CubeEq(prev.dom, EntireDomain(dims))
  /\ last.kind = "query" /\ ~CubeEq(last.dom, EntireDomain(dims))
  /\ operations_[0] = Identity
  /\ \E v \in DOMAIN operations_ : operations_[v] # Identity
  /\ QueryRet(St, last.dom) = last.ret

\* C6: a QueryRange or Get call leaves the value of QueryRange(D2) as it was,
\* for every domain D2
QueryIsReadOnly ==
  [][(calls' = calls + 1 /\ last'.kind \in {"query", "get"}) =>
       \A D2 \in AllDomains(dims) : QueryRet(StNext, D2) = QueryRet(St, D2)]_vars

(***************************************************************************)
(* Overlapping adds                                                        *)
(***************************************************************************)
\* the cell values the claim expects after AddToRange(D1, 5) and
\* AddToRange(D2, -5) over the values before
Overlapped(before, D1, D2) ==
  [c \in DOMAIN before |->
     before[c] + (IF InCube(c, D1) THEN 5 ELSE 0)
               - (IF InCube(c, D2) THEN 5 ELSE 0)]

\* C7: after AddToRange(D1, 5) then AddToRange(D2, -5) with D1 and D2
\* partially overlapping, Get reads the previous value on D1 /\ D2, the
\* previous value + 5 on D1 only, - 5 on D2 only, and the previous value
\* elsewhere: when both calls have been made, and for every D2 of the calls
\* in the state AddToRange(D1, 5) has left
OverlappingAdds ==
  Ready =>
    /\ (prev.kind = "add" /\ prev.arg = 5 /\ last.kind = "add" /\ last.arg = -5
          /\ PartialOverlap(dims, prev.dom, last.dom)) =>
         Observe(St) = Overlapped(obs.prev, prev.dom, last.dom)
    /\ (last.kind = "add" /\ last.arg = 5) =>
         \A D2 \in CallDomains(dims) :
           PartialOverlap(dims, last.dom, D2) =>
             Observe(AddToRangeOp(St, dims, D2, -5))
               = Overlapped(obs.last, last.dom, D2)

\* the two adds have been made over partially overlapping domains of more
\* than one cell each
OverlappingAddsWitness ==
  /\ Ready
  /\ prev.kind = "add" /\ prev.arg = 5 /\ last.kind = "add" /\ last.arg = -5
  /\ PartialOverlap(dims, prev.dom, last.dom)
  /\ Volume(prev.dom) > 1 /\ Volume(last.dom) > 1
  /\ Observe(St) = Overlapped(obs.prev, prev.dom, last.dom)
  /\ Observe(St) # obs.prev

(***************************************************************************)
(* Construction                                                            *)
(***************************************************************************)
\* C8: for every extent vector the constructor returns, and Get on every
\* coordinate then returns the array entry at the row-major index
RoundTrip ==
  /\ pc # "overflow"
  /\ (Ready /\ calls = 0) =>
       \A c \in Cells(dims) : GetRet(St, c) = arr[RowMajor(dims, c)]

\* C9: every domain the build recurses on is a point or is reduced by the
\* subdivision: none of its quadrants is the domain itself
BuildReduces ==
  \A fr \in 1..Len(stack) :
    \/ IsPoint(stack[fr].domain)
    \/ \A q \in 0..(NOf(Len(dims)) - 1) :
         ~CubeEq(Subdivide(stack[fr].domain)[q], stack[fr].domain)

(***************************************************************************)
(* Calls with a domain that is not inside the entire domain.  The public   *)
(* calls validate nothing: the same recursion runs on these domains.       *)
(***************************************************************************)
\* an interval past the high end, one past the low end, one right outside
OobIntervals(e) == {<<1, e + 1>>, <<-1, 1>>, <<e, e + 1>>}

OobDomains(d) ==
  {MkCube([k \in 1..Len(d) |-> iv]) : iv \in OobIntervals(d[1])}

OobCells(d) == {[k \in 1..Len(d) |-> x] : x \in {-1, d[1]}}

\* ApplyToRange through AddToRange or AssignRange; the reference grid of an
\* out-of-bounds call does not change
OobApply ==
  /\ Callable
  /\ \E D \in OobDomains(dims) :
       /\ \/ \E val \in AssignArgs :
               Called(AssignRangeOp(St, dims, D, val), Call("assign", D, val, 0))
          \/ \E inc \in AddArgs :
               Called(AddToRangeOp(St, dims, D, inc), Call("add", D, inc, 0))
       /\ grid' = grid

OobQuery ==
  /\ Callable
  /\ \E D \in OobDomains(dims) :
       \E q \in {QueryRangeOp(St, dims, D)} :
         /\ Called(q.st, Call("query", D, 0, q.ret))
         /\ grid' = grid

OobGet ==
  /\ Callable
  /\ \E I \in OobCells(dims) :
       \E q \in {GetOp(St, dims, I)} :
         /\ Called(q.st, Call("get", UnitCube(I), 0, q.ret))
         /\ grid' = grid

NextOob == Next \/ OobApply \/ OobQuery \/ OobGet

SpecOob == Init /\ [][NextOob]_vars

\* C10: a call whose domain is not inside the entire domain reports a
\* failure to its caller and leaves tree_ and operations_ as they were
OutOfBoundsRejected ==
  [][(calls' = calls + 1 /\ ~Inside(last'.dom, EntireDomain(dims))) =>
       (last'.failed /\ tree_' = tree_ /\ operations_' = operations_)]_vars

(***************************************************************************)
(* Per-node invariants                                                     *)
(***************************************************************************)
\* the nodes BuildTreeR visits below v: index and domain, empty domains left out
RECURSIVE NodesFrom(_, _)
NodesFrom(v, domain) ==
  IF IsEmpty(domain) THEN {}
  ELSE IF IsPoint(domain) THEN {[v |-> v, domain |-> domain]}
  ELSE {[v |-> v, domain |-> domain]} \cup
       UNION {NodesFrom(Child(Len(domain.l), v, i), Subdivide(domain)[i]) :
                i \in 0..(NOf(Len(domain.l)) - 1)}

Nodes(d) == NodesFrom(0, EntireDomain(d))

\* C11: after construction and after every completed public call, the value
\* stored at every node with a non-empty domain is the sum of the reference
\* grid over that domain
NodeSums ==
  Ready => \A node \in Nodes(dims) :
             tree_[node.v] = GridSum(grid, node.domain)

\* C13: after construction and after every completed public call, the
\* pending operation of every point node is the identity
LeavesHaveNoPending ==
  Ready => \A node \in Nodes(dims) :
             IsPoint(node.domain) => operations_[node.v] = Identity

\* an assignment left pending on the root has been pushed down to a leaf
LeavesHaveNoPendingWitness ==
  /\ Ready
  /\ prev.kind = "assign" /\ prev.dom = EntireDomain(dims)
  /\ ~IsPoint(prev.dom)
  /\ last.kind = "get" /\ last.ret = prev.arg
  /\ \A node \in Nodes(dims) :
       IsPoint(node.domain) => operations_[node.v] = Identity

\* the nodes strictly below a node
Descendants(node) == NodesFrom(node.v, node.domain) \ {node}

\* C18: an apply over the entire domain changes only tree_[0] and
\* operations_[0], and operations_[0] becomes the composition of the
\* operation onto the old pending, or the identity when the root is a
\* point; an apply whose domain is the domain of a node changes no slot of a
\* descendant of that node
ExactCoverFrame ==
  [][(calls' = calls + 1 /\ last'.kind \in {"add", "assign"}) =>
       LET op == [reset_pending |-> last'.kind = "assign", to_add |-> last'.arg]
       IN /\ CubeEq(last'.dom, EntireDomain(dims)) =>
               /\ \A v \in DOMAIN tree_ \ {0} :
                    tree_'[v] = tree_[v] /\ operations_'[v] = operations_[v]
               /\ operations_'[0] =
                    IF IsPoint(EntireDomain(dims))
                      THEN Identity
                      ELSE ComposeWith(operations_[0], op)
          /\ \A node \in Nodes(dims) :
               CubeEq(node.domain, last'.dom) =>
                 \A d \in Descendants(node) :
                   /\ tree_'[d.v] = tree_[d.v]
                   /\ operations_'[d.v] = operations_[d.v]]_vars

\* an apply over the entire domain came after an apply that left an
\* operation pending on an inner node, and that operation is still there
ExactCoverFrameWitness ==
  /\ Ready
  /\ last.kind \in {"add", "assign"} /\ CubeEq(last.dom, EntireDomain(dims))
  /\ prev.kind = "add" /\ ~CubeEq(prev.dom, EntireDomain(dims))
  /\ operations_[0] # Identity
  /\ \E node \in Nodes(dims) :
       /\ CubeEq(node.domain, prev.dom)
       /\ ~IsPoint(node.domain)
       /\ operations_[node.v] = [reset_pending |-> FALSE, to_add |-> prev.arg]

\* C14: every index used to read or write tree_ and operations_ during
\* construction and during the public calls, the indices of all 2^n
\* children that Push and UpdateValueFromBelow touch included, is below the
\* allocated size 4 * V
IndexInBounds ==
  /\ (pc = "build" /\ IsPoint(Top.domain)) => Top.v \in DOMAIN tree_
  /\ (pc = "build" /\ ~IsPoint(Top.domain) /\ Top.i = NOf(Len(dims))) =>
       \A i \in 0..(NOf(Len(dims)) - 1) :
         Child(Len(dims), Top.v, i) \in DOMAIN tree_
  /\ Ready =>
       \A node \in Nodes(dims) :
         /\ node.v \in DOMAIN tree_
         /\ ~IsPoint(node.domain) =>
              \A i \in 0..(NOf(Len(dims)) - 1) :
                Child(Len(dims), node.v, i) \in DOMAIN operations_

\* C15: Linear maps the coordinates of every cell to its row-major index
\* in the input array, for equal and for differing extents
LinearIsRowMajor ==
  \A c \in Cells(dims) : Linear(dims, c) = RowMajor(dims, c)

(***************************************************************************)
(* The one-dimensional tree against the N-dimensional tree with n = 1      *)
(***************************************************************************)
\* calls per run when both trees are driven side by side
MaxOneOps == 3

\* the whole extent and its first half
OneDomains(d) ==
  {EntireDomain(d), [l |-> <<0>>, r |-> <<MaxOf(1, d[1] \div 2)>>]}

OneCallable == pc = "ready" /\ calls < MaxOneOps

OneAssignRange ==
  /\ OneCallable
  /\ \E D \in OneDomains(dims), x \in AssignArgs :
       /\ Called(AssignRangeOp(St, dims, D, x), Call("assign", D, x, 0))
       /\ grid' = GridApply(grid, D, [reset_pending |-> TRUE, to_add |-> x])

OneAddToRange ==
  /\ OneCallable
  /\ \E D \in OneDomains(dims), x \in {5} :
       /\ Called(AddToRangeOp(St, dims, D, x), Call("add", D, x, 0))
       /\ grid' = GridApply(grid, D, [reset_pending |-> FALSE, to_add |-> x])

OneQueryRange ==
  /\ OneCallable
  /\ \E D \in OneDomains(dims) :
       \E q \in {QueryRangeOp(St, dims, D)} :
         /\ Called(q.st, Call("query", D, 0, q.ret))
         /\ grid' = grid

OneGet ==
  /\ OneCallable
  /\ \E I \in Cells(dims) :
       \E q \in {GetOp(St, dims, I)} :
         /\ Called(q.st, Call("get", UnitCube(I), 0, q.ret))
         /\ grid' = grid

InitOne == Init /\ Len(dims) = 1

NextOne ==
  \/ BuildLeaf
  \/ BuildDescend
  \/ BuildReturn
  \/ OneAssignRange
  \/ OneAddToRange
  \/ OneQueryRange
  \/ OneGet

SpecOne == InitOne /\ [][NextOne]_vars

\* C12: over the same array and the same calls, every QueryRange and Get of
\* the one-dimensional SegmentTree returns what the N-dimensional
\* SegmentTree with n = 1 returns
OneDimensionalAgrees ==
  (Ready /\ Len(dims) = 1 /\ last.kind \in {"query", "get"}) =>
    one.ret = last.ret

(***************************************************************************)
(* Cube and Operation called directly, one call in a run.  probe holds the  *)
(* call: the method, its object and arguments, and what it returned.       *)
(***************************************************************************)
\* coordinates of the cubes given to Subdivide: -MaxCoord..MaxCoord
MaxCoord == 3

\* coordinates of the pairs of cubes given to IsDisjointFrom: 0..MaxPair
MaxPair == 2

\* to_add of the operations and the values they are evaluated on:
\* -MaxAdd..MaxAdd
MaxAdd == 2

\* volumes of the domains operations are evaluated over: 1..MaxVol
MaxVol == 2

\* the cubes of n = 1 and n = 2 with low <= high on every axis
CubesOver(S) ==
  UNION {{c \in [l : [1..n -> S], r : [1..n -> S]] :
            \A k \in 1..n : c.l[k] <= c.r[k]} : n \in {1, 2}}

ProbeCubes == CubesOver((-MaxCoord)..MaxCoord)

PairCubes == {c \in CubesOver(0..MaxPair) : ~IsEmpty(c)}

ProbeOps == [reset_pending : BOOLEAN, to_add : (-MaxAdd)..MaxAdd]

ProbeVals == (-MaxAdd)..MaxAdd

ProbeDomains == {[l |-> <<0>>, r |-> <<e>>] : e \in 1..MaxVol}

TreeUnchanged ==
  UNCHANGED <<pc, dims, arr, tree_, operations_, stack, grid, last, prev, obs,
              calls, one>>

ProbeSubdivide ==
  /\ probe = NoProbe
  /\ \E c \in ProbeCubes :
       probe' = [fn |-> "Subdivide", this |-> c, ret |-> Subdivide(c)]
  /\ TreeUnchanged

ProbeIsDisjointFrom ==
  /\ probe = NoProbe
  /\ \E a \in PairCubes, b \in PairCubes :
       /\ Len(a.l) = Len(b.l)
       /\ probe' = [fn |-> "IsDisjointFrom", this |-> a, other |-> b,
                    ret |-> IsDisjointFrom(a, b)]
  /\ TreeUnchanged

ProbeComposeWith ==
  /\ probe = NoProbe
  /\ \E a \in ProbeOps, b \in ProbeOps :
       probe' = [fn |-> "ComposeWith", this |-> a, other |-> b,
                 ret |-> ComposeWith(a, b)]
  /\ TreeUnchanged

ProbeEvaluate ==
  /\ probe = NoProbe
  /\ \E op \in ProbeOps, val \in ProbeVals, D \in ProbeDomains :
       probe' = [fn |-> "Evaluate", this |-> op, val |-> val, domain |-> D,
                 ret |-> Evaluate(op, val, D)]
  /\ TreeUnchanged

ProbeReset ==
  /\ probe = NoProbe
  /\ \E op \in ProbeOps :
       probe' = [fn |-> "Reset", this |-> op, ret |-> Reset(op)]
  /\ TreeUnchanged

InitPure == Init /\ dims = <<1>>

NextPure ==
  \/ ProbeSubdivide
  \/ ProbeIsDisjointFrom
  \/ ProbeComposeWith
  \/ ProbeEvaluate
  \/ ProbeReset

SpecPure == InitPure /\ [][NextPure]_vars

\* the cells of a cube
CubeCells(c) ==
  {p \in [1..Len(c.l) -> (-MaxCoord)..MaxCoord] : InCube(p, c)}

RECURSIVE SumVolumes(_, _)
SumVolumes(quads, i) ==
  IF i \notin DOMAIN quads THEN 0
  ELSE Volume(quads[i]) + SumVolumes(quads, i + 1)

\* the children are pairwise disjoint, inside the parent, cover it, and
\* their volumes sum to its volume
Partitions(c, quads) ==
  /\ \A i \in DOMAIN quads, j \in DOMAIN quads :
       i # j => CubeCells(quads[i]) \cap CubeCells(quads[j]) = {}
  /\ \A i \in DOMAIN quads : CubeCells(quads[i]) \subseteq CubeCells(c)
  /\ UNION {CubeCells(quads[i]) : i \in DOMAIN quads} = CubeCells(c)
  /\ SumVolumes(quads, 0) = Volume(c)

\* on axis k every child is [low, m) or [m, high), and the two differ in
\* length by at most one
HalvesAt(c, quads, k, m) ==
  /\ \A i \in DOMAIN quads :
       \/ quads[i].l[k] = c.l[k] /\ quads[i].r[k] = m
       \/ quads[i].l[k] = m /\ quads[i].r[k] = c.r[k]
  /\ (m - c.l[k]) - (c.r[k] - m) \in {-1, 0, 1}

\* C16 as stated: Subdivide partitions every domain with low <= high, and
\* on each axis the halves are [low, m) and [m, high) with
\* m = floor((low + high) / 2) and lengths differing by at most one
SubdividePartitionsFloor ==
  probe.fn = "Subdivide" =>
    /\ Partitions(probe.this, probe.ret)
    /\ \A k \in 1..Len(probe.this.l) :
         HalvesAt(probe.this, probe.ret, k,
                  (probe.this.l[k] + probe.this.r[k]) \div 2)

\* m is (low + high) / 2 rounded toward zero
RoundsTowardZero(m, sum) ==
  \/ 2 * m = sum
  \/ sum > 0 /\ 2 * m = sum - 1
  \/ sum < 0 /\ 2 * m = sum + 1

\* C16 amended: Subdivide partitions every domain with low <= high, and on
\* each axis the halves are [low, m) and [m, high) with m = (low + high) / 2
\* rounded toward zero, which is the floor when low + high >= 0, and lengths
\* differing by at most one
SubdividePartitions ==
  probe.fn = "Subdivide" =>
    /\ Partitions(probe.this, probe.ret)
    /\ \A k \in 1..Len(probe.this.l) :
         \E m \in (-MaxCoord)..MaxCoord :
           /\ RoundsTowardZero(m, probe.this.l[k] + probe.this.r[k])
           /\ HalvesAt(probe.this, probe.ret, k, m)

\* Subdivide of [-3, 0) x [0, 3): odd extents, a negative and a positive sum
SubdividePartitionsWitness ==
  /\ probe.fn = "Subdivide"
  /\ probe.this = [l |-> <<-3, 0>>, r |-> <<0, 3>>]
  /\ probe.ret[0] = [l |-> <<-1, 1>>, r |-> <<0, 3>>]
  /\ probe.ret[3] = [l |-> <<-3, 0>>, r |-> <<-1, 1>>]

\* C17: for non-empty a and b, a.IsDisjointFrom(b) is true exactly when on
\* some axis b starts at or after the end of a or ends at or before the
\* start of a, that is exactly when their intersection has volume 0
DisjointIsPerAxis ==
  probe.fn = "IsDisjointFrom" =>
    /\ probe.ret <=>
         \E i \in 1..Len(probe.this.l) :
           \/ probe.other.l[i] >= probe.this.r[i]
           \/ probe.other.r[i] <= probe.this.l[i]
    /\ probe.ret <=> Volume(IntersectWith(probe.this, probe.other)) = 0

\* C19: the composition of old with new evaluates to what new evaluates to
\* on the result of old; an assign followed by an add is the assign of the
\* sum, and anything followed by an assign is that assign
ComposeIsSequential ==
  probe.fn = "ComposeWith" =>
    /\ \A val \in ProbeVals, D \in ProbeDomains :
         Evaluate(probe.ret, val, D) =
           Evaluate(probe.other, Evaluate(probe.this, val, D), D)
    /\ (probe.this.reset_pending /\ ~probe.other.reset_pending) =>
         probe.ret = [reset_pending |-> TRUE,
                      to_add |-> probe.this.to_add + probe.other.to_add]
    /\ probe.other.reset_pending => probe.ret = probe.other

\* an add composed onto a pending assign
ComposeIsSequentialWitness ==
  /\ probe.fn = "ComposeWith"
  /\ probe.this = [reset_pending |-> TRUE, to_add |-> 2]
  /\ probe.other = [reset_pending |-> FALSE, to_add |-> -1]
  /\ probe.ret = [reset_pending |-> TRUE, to_add |-> 1]

\* C20: the identity is a unit of ComposeWith on both sides and of
\* Evaluate, and Reset leaves the identity
IdentityIsUnit ==
  /\ (probe.fn = "ComposeWith" /\ probe.other = Identity) =>
       probe.ret = probe.this
  /\ (probe.fn = "ComposeWith" /\ probe.this = Identity) =>
       probe.ret = probe.other
  /\ (probe.fn = "Evaluate" /\ probe.this = Identity) =>
       probe.ret = probe.val
  /\ probe.fn = "Reset" => probe.ret = Identity

\* Reset of a pending assign
IdentityIsUnitWitness ==
  /\ probe.fn = "Reset"
  /\ probe.this = [reset_pending |-> TRUE, to_add |-> 2]
  /\ probe.ret = Identity

====
